---- MODULE Spec2Model ----
(***************************************************************************)
(* Model of amazon_review_framework.py: the input assembler                *)
(* (get_image_files, encode_image, the first message) and the conversation *)
(* loop of create_amazon_review with its transcript file.                  *)
(*                                                                         *)
(* Python strings are sequences of one-character strings, so that          *)
(* str.lower, str.upper, str.endswith, os.path.splitext, the f-strings and *)
(* the transcript layout are computed character by character.              *)
(***************************************************************************)
EXTENDS Integers, Sequences, FiniteSets, TLC

(* ---------------------------- bounds ----------------------------------- *)

\* most non-sentinel turn inputs the operator types in one run
MaxTurns == 2

\* most entries in the listing of the images directory
MaxFiles == 2

(* ---------------------------- strings ---------------------------------- *)

UpperLetters ==
    <<"A","B","C","D","E","F","G","H","I","J","K","L","M","N","O","P","Q","R","S","T","U","V","W","X","Y","Z">>

LowerLetters ==
    <<"a","b","c","d","e","f","g","h","i","j","k","l","m","n","o","p","q","r","s","t","u","v","w","x","y","z">>

LowerChar(c) ==
    IF \E i \in 1..26 : UpperLetters[i] = c
    THEN LowerLetters[CHOOSE i \in 1..26 : UpperLetters[i] = c]
    ELSE c

UpperChar(c) ==
    IF \E i \in 1..26 : LowerLetters[i] = c
    THEN UpperLetters[CHOOSE i \in 1..26 : LowerLetters[i] = c]
    ELSE c

\* str.lower()
Lower(s) == [i \in 1..Len(s) |-> LowerChar(s[i])]

\* str.upper()
Upper(s) == [i \in 1..Len(s) |-> UpperChar(s[i])]

\* str.endswith(suffix)
EndsWith(s, suffix) ==
    /\ Len(s) >= Len(suffix)
    /\ SubSeq(s, Len(s) - Len(suffix) + 1, Len(s)) = suffix

\* str.rfind(c) for a single character, 1-based; 0 when c does not occur
RFind(s, c) ==
    IF \E i \in 1..Len(s) : s[i] = c
    THEN CHOOSE i \in 1..Len(s) : s[i] = c /\ \A j \in (i+1)..Len(s) : s[j] # c
    ELSE 0

\* ''.join(list of strings)
RECURSIVE Join(_)
Join(ss) == IF ss = <<>> THEN <<>> ELSE Head(ss) \o Join(Tail(ss))

(* ------------------------ constants of the program --------------------- *)

user == <<"u","s","e","r">>

assistant == <<"a","s","s","i","s","t","a","n","t">>

\* the sentinel literal of the comparison user_response.lower() == 'exit'
exit == <<"e","x","i","t">>

image_extensions ==
    << <<".","j","p","g">>, <<".","j","p","e","g">>, <<".","p","n","g">>,
       <<".","g","i","f">>, <<".","w","e","b","p">> >>

\* the system directive: one fixed string, opaque to the program
system_prompt == "system_prompt"

ReviewHeader ==
    <<"H","e","r","e"," ","i","s"," ","m","y"," ","i","n","i","t","i","a","l"," ","p","r","o","d","u","c","t"," ","r","e","v","i","e","w",":","\n","\n">>

ImagesSentence ==
    <<"I","'","m"," ","a","l","s","o"," ","s","h","a","r","i","n","g"," ","s","o","m","e"," ","i","m","a","g","e","s"," ","o","f"," ","t","h","e"," ","p","r","o","d","u","c","t"," ","f","o","r"," ","y","o","u","r"," ","a","n","a","l","y","s","i","s",":","\n">>

(* ------------------------ inputs of the environment -------------------- *)

\* names that may appear in the listing of the images directory
FileNames ==
    { <<"a",".","p","n","g">>, <<"b",".","J","P","G">>, <<".","p","n","g">>,
      <<"c",".","t","x","t">> }

\* listings: sequences of distinct names, in any order
Listings ==
    UNION { { l \in [1..n -> FileNames] : \A i, j \in 1..n : i # j => l[i] # l[j] }
            : n \in 0..MaxFiles }

\* lines the operator may type as the initial review
InitialReviews ==
    { <<"G","r","e","a","t">>, <<"e","x","i","t">>, <<"E","X","I","T">>,
      <<"U","S","E","R",":"," ","x">> }

\* lines the operator may type at a turn prompt
TurnLines ==
    { <<"e","x","i","t">>, <<"E","X","I","T">>, <<"E","x","i","t">>,
      <<>>, <<" ","e","x","i","t">> }

\* a text element / a non-text element of response.content
TextBlock(t) == [type |-> "text", text |-> t]

OtherBlock == [type |-> "tool_use", text |-> <<>>]

\* values of response.content the remote model may return
Responses ==
    { <<>>,
      << OtherBlock, TextBlock(<<"n","o">>) >>,
      << TextBlock(<<"Q","?">>), TextBlock(<<"z">>) >>,
      << TextBlock(<<"a","\n","\n","U","S","E","R",":"," ","b">>) >> }

(* ---------------------------- get_image_files -------------------------- *)

\* any(file.lower().endswith(ext) for ext in image_extensions)
IsImageFile(file) ==
    \E k \in 1..Len(image_extensions) : EndsWith(Lower(file), image_extensions[k])

\* os.path.join('images', file)
PathJoin(file) == <<"i","m","a","g","e","s","/">> \o file

RECURSIVE FilterJoinReversed(_)
\* every match put in front of the earlier ones, in place of line 21
FilterJoinReversed(l) ==
    IF l = <<>> THEN <<>>
    ELSE IF IsImageFile(Head(l))
         THEN FilterJoinReversed(Tail(l)) \o <<PathJoin(Head(l))>>
         ELSE FilterJoinReversed(Tail(l))

RECURSIVE FilterJoin(_)
FilterJoin(l) ==
    IF l = <<>> THEN <<>>
    ELSE IF IsImageFile(Head(l))
         THEN <<PathJoin(Head(l))>> \o FilterJoin(Tail(l))
         ELSE FilterJoin(Tail(l))

\* get_image_files(): kind is what the path 'images' is ("absent" or "dir")
get_image_files(kind, l) == IF kind # "absent" THEN FilterJoin(l) ELSE <<>>

(* ---------------------------- the first message ------------------------ *)

\* os.path.splitext(p)[1]: the extension starts at the last dot of the last
\* path component, unless only dots precede it in that component
splitext1(p) ==
    LET sepIndex == RFind(p, "/")
        dotIndex == RFind(p, ".")
    IN  IF /\ dotIndex > sepIndex
           /\ \E j \in (sepIndex + 1)..(dotIndex - 1) : p[j] # "."
        THEN SubSeq(p, dotIndex, Len(p))
        ELSE <<>>

\* f"image/{os.path.splitext(image_path)[1][1:]}"
media_type(image_path) ==
    <<"i","m","a","g","e","/">> \o SubSeq(splitext1(image_path), 2, Len(splitext1(image_path)))

\* encode_image(image_path) of a readable file: the base64 text of its bytes,
\* kept as a value determined by the file
encode_image(image_path) == <<"base64">> \o image_path

TextPart(t) == [type |-> "text", text |-> t, media_type |-> <<>>, data |-> <<>>]

ImagePart(image_path) ==
    [type |-> "image", text |-> <<>>,
     media_type |-> media_type(image_path), data |-> encode_image(image_path)]

\* the images sentence added whether or not a file was found, in place of line 56
FirstMessageTextAlways(review, files) ==
    ReviewHeader \o review \o <<"\n","\n">> \o ImagesSentence

\* first_message_content after lines 52-57
FirstMessageText(review, files) ==
    ReviewHeader \o review \o <<"\n","\n">>
        \o (IF files # <<>> THEN ImagesSentence ELSE <<>>)

\* a message whose content is a str / a list of parts
StrMessage(role, t) == [role |-> role, is_str |-> TRUE, text |-> t, parts |-> <<>>]

ListMessage(role, parts) == [role |-> role, is_str |-> FALSE, text |-> <<>>, parts |-> parts]

(* ---------------------------- the transcript --------------------------- *)

RECURSIVE TextParts(_)
\* [item['text'] for item in message['content'] if item['type'] == 'text']
TextParts(parts) ==
    IF parts = <<>> THEN <<>>
    ELSE IF Head(parts).type = "text"
         THEN <<Head(parts).text>> \o TextParts(Tail(parts))
         ELSE TextParts(Tail(parts))

\* the text one f.write call writes for a message
WriteMessage(message) ==
    IF message.is_str
    THEN Upper(message.role) \o <<":"," ">> \o message.text \o <<"\n","\n">>
    ELSE Upper(message.role) \o <<":"," ">> \o Join(TextParts(message.parts)) \o <<"\n","\n">>

RECURSIVE WriteAll(_)
\* the content of the file after the for loop over messages
WriteAll(msgs) ==
    IF msgs = <<>> THEN <<>> ELSE WriteMessage(Head(msgs)) \o WriteAll(Tail(msgs))

(* ---------------------------- the loop --------------------------------- *)

\* a case-sensitive comparison in place of line 105
IsSentinelCaseSensitive(line) == line = exit

\* a substring-style test in place of line 105
IsSentinelSuffix(line) == EndsWith(Lower(line), exit)

\* user_response.lower() == 'exit'
IsSentinel(line) == Lower(line) = exit

\* response.content[0].text evaluates without raising
HasFirstText(content) == content # <<>> /\ content[1].type = "text"

\* every text element of the reply joined, in place of line 92
AllText(content) == Join([i \in 1..Len(content) |-> content[i].text])

\* assistant_message = response.content[0].text
assistant_message(content) == content[1].text

\* the reply appended under the role user, in place of line 97
AppendAssistantAsUser(msgs, text) == Append(msgs, StrMessage(user, text))

\* messages.append({"role": "assistant", "content": assistant_message})
AppendAssistant(msgs, text) == Append(msgs, StrMessage(assistant, text))

\* the user line is counted but not appended, in place of lines 120-123
AppendUserDropped(msgs, line) == msgs

\* the user line overwrites the last message, in place of lines 120-123
AppendUserOverwrites(msgs, line) == [msgs EXCEPT ![Len(msgs)] = StrMessage(user, line)]

RECURSIVE LStrip(_)
\* the line without its leading blanks
LStrip(line) == IF line # <<>> /\ Head(line) = " " THEN LStrip(Tail(line)) ELSE line

\* the user line appended after stripping, in place of line 122
AppendUserStripped(msgs, line) == Append(msgs, StrMessage(user, LStrip(line)))

\* messages.append({"role": "user", "content": user_response})
AppendUser(msgs, line) == Append(msgs, StrMessage(user, line))

(* ---------------------------- state ------------------------------------ *)

VARIABLES
    pc,                     \* position of create_amazon_review
    images_kind,            \* the path 'images': "absent", "dir" or "file"
    listing,                \* os.listdir('images')
    initial_review,
    image_files,
    first_message_content,
    image_content,
    messages,
    conversation_active,
    response,               \* response.content of the last completed request
    user_response,
    file,                   \* amazon_review_conversation.txt
    requests,               \* history: the arguments of every messages.create call
    n_inputs,               \* history: non-sentinel turn inputs read
    n_replies,              \* history: requests that returned a first text element
    n_reads,                \* history: turn inputs read, the sentinel included
    n_writes                \* history: times the transcript file was written

vars ==
    <<pc, images_kind, listing, initial_review, image_files, first_message_content,
      image_content, messages, conversation_active, response, user_response, file,
      requests, n_inputs, n_replies, n_reads, n_writes>>

NoFile == [exists |-> FALSE, data |-> <<>>]

Init ==
    /\ pc = "start"
    /\ images_kind \in {"absent", "dir", "file"}
    /\ listing \in Listings
    /\ (images_kind # "dir" => listing = <<>>)
    /\ initial_review = <<>>
    /\ image_files = <<>>
    /\ first_message_content = <<>>
    /\ image_content = <<>>
    /\ messages = <<>>
    /\ conversation_active = FALSE
    /\ response = <<>>
    /\ user_response = <<>>
    /\ file = NoFile
    /\ requests = <<>>
    /\ n_inputs = 0
    /\ n_replies = 0
    /\ n_reads = 0
    /\ n_writes = 0

env == <<images_kind, listing>>

history == <<requests, n_inputs, n_replies, n_reads, n_writes>>

\* the sentinel test of line 105 applied to the initial review as well
ReadInitialReviewChecksSentinel ==
    /\ pc = "start"
    /\ \E line \in InitialReviews :
        /\ initial_review' = line
        /\ IF IsSentinel(line)
           THEN /\ pc' = "done"
                /\ UNCHANGED <<image_files, first_message_content>>
           ELSE IF images_kind = "file"
           THEN /\ pc' = "crash_listdir"
                /\ UNCHANGED <<image_files, first_message_content>>
           ELSE /\ pc' = "encode"
                /\ image_files' = get_image_files(images_kind, listing)
                /\ first_message_content' =
                       FirstMessageText(line, get_image_files(images_kind, listing))
    /\ UNCHANGED <<env, image_content, messages, conversation_active, response,
                   user_response, file, history>>

\* lines 27-57: read the initial review, list the images, start the text part;
\* os.listdir raises when 'images' exists and is not a directory
ReadInitialReview ==
    /\ pc = "start"
    /\ \E line \in InitialReviews :
        /\ initial_review' = line
        /\ IF images_kind = "file"
           THEN /\ pc' = "crash_listdir"
                /\ UNCHANGED <<image_files, first_message_content>>
           ELSE /\ pc' = "encode"
                /\ image_files' = get_image_files(images_kind, listing)
                /\ first_message_content' =
                       FirstMessageText(line, get_image_files(images_kind, listing))
    /\ UNCHANGED <<env, image_content, messages, conversation_active, response,
                   user_response, file, history>>

\* lines 59-68, one iteration: the next image file is read and appended
EncodeImage ==
    /\ pc = "encode"
    /\ Len(image_content) < Len(image_files)
    /\ image_content' =
           Append(image_content, ImagePart(image_files[Len(image_content) + 1]))
    /\ UNCHANGED <<pc, env, initial_review, image_files, first_message_content,
                   messages, conversation_active, response, user_response, file,
                   history>>

\* the unreadable file is skipped and the message is built from the images
\* encoded so far, in place of the uncaught exception of line 10
EncodeImageFailsSkipped ==
    /\ pc = "encode"
    /\ Len(image_content) < Len(image_files)
    /\ messages' =
           << ListMessage(user, <<TextPart(first_message_content)>> \o image_content) >>
    /\ conversation_active' = TRUE
    /\ pc' = "request"
    /\ UNCHANGED <<env, initial_review, image_files, first_message_content,
                   image_content, response, user_response, file, history>>

\* line 10: open or read raises inside encode_image; nothing catches it
EncodeImageFails ==
    /\ pc = "encode"
    /\ Len(image_content) < Len(image_files)
    /\ pc' = "crash_encode"
    /\ UNCHANGED <<env, initial_review, image_files, first_message_content,
                   image_content, messages, conversation_active, response,
                   user_response, file, history>>

\* the loop entered at the prompt of line 103 instead of the request of line 84
BuildFirstMessageAsksFirst ==
    /\ pc = "encode"
    /\ Len(image_content) = Len(image_files)
    /\ messages' =
           << ListMessage(user, <<TextPart(first_message_content)>> \o image_content) >>
    /\ conversation_active' = TRUE
    /\ pc' = "input"
    /\ UNCHANGED <<env, initial_review, image_files, first_message_content,
                   image_content, response, user_response, file, history>>

\* lines 71-81: the first message, conversation_active = True
BuildFirstMessage ==
    /\ pc = "encode"
    /\ Len(image_content) = Len(image_files)
    /\ messages' =
           << ListMessage(user, <<TextPart(first_message_content)>> \o image_content) >>
    /\ conversation_active' = TRUE
    /\ pc' = "request"
    /\ UNCHANGED <<env, initial_review, image_files, first_message_content,
                   image_content, response, user_response, file, history>>

\* a reply without a first text element is asked for again, in place of the
\* uncaught exception of line 92
SendRequestRetries ==
    /\ pc = "request"
    /\ conversation_active
    /\ \E content \in Responses :
        /\ requests' = Append(requests, [system |-> system_prompt, messages |-> messages])
        /\ response' = content
        /\ IF HasFirstText(content)
           THEN /\ messages' = AppendAssistant(messages, assistant_message(content))
                /\ n_replies' = n_replies + 1
                /\ pc' = "input"
           ELSE /\ Len(requests) < 2 * MaxTurns + 2
                /\ pc' = "request"
                /\ UNCHANGED <<messages, n_replies>>
    /\ UNCHANGED <<env, initial_review, image_files, first_message_content,
                   image_content, conversation_active, user_response, file,
                   n_inputs, n_reads, n_writes>>

\* lines 84-99: one synchronous request that returns; response.content[0].text
\* raises when the content is empty or its first element is not text
SendRequest ==
    /\ pc = "request"
    /\ conversation_active
    /\ \E content \in Responses :
        /\ requests' = Append(requests, [system |-> system_prompt, messages |-> messages])
        /\ response' = content
        /\ IF HasFirstText(content)
           THEN /\ messages' = AppendAssistant(messages, assistant_message(content))
                /\ n_replies' = n_replies + 1
                /\ pc' = "input"
           ELSE /\ pc' = "crash_request"
                /\ UNCHANGED <<messages, n_replies>>
    /\ UNCHANGED <<env, initial_review, image_files, first_message_content,
                   image_content, conversation_active, user_response, file,
                   n_inputs, n_reads, n_writes>>

\* line 84: client.messages.create raises (network, authentication, API error)
RequestRaises ==
    /\ pc = "request"
    /\ conversation_active
    /\ requests' = Append(requests, [system |-> system_prompt, messages |-> messages])
    /\ pc' = "crash_request"
    /\ UNCHANGED <<env, initial_review, image_files, first_message_content,
                   image_content, messages, conversation_active, response,
                   user_response, file, n_inputs, n_replies, n_reads, n_writes>>

\* lines 103-105 and 118-123: read one line; the sentinel leads to the save,
\* any other line is appended as a user message
ReadUserInput ==
    /\ pc = "input"
    /\ \E line \in TurnLines :
        /\ (~IsSentinel(line) => n_inputs < MaxTurns)
        /\ user_response' = line
        /\ n_reads' = n_reads + 1
        /\ IF IsSentinel(line)
           THEN /\ pc' = "save"
                /\ UNCHANGED <<messages, n_inputs>>
           ELSE /\ messages' = AppendUser(messages, line)
                /\ n_inputs' = n_inputs + 1
                /\ pc' = "request"
    /\ UNCHANGED <<env, initial_review, image_files, first_message_content,
                   image_content, conversation_active, response, file, requests,
                   n_replies, n_writes>>

\* lines 29 and 103: input() raises EOFError when standard input is closed
InputEOF ==
    /\ pc \in {"start", "input"}
    /\ pc' = "crash_eof"
    /\ UNCHANGED <<env, initial_review, image_files, first_message_content,
                   image_content, messages, conversation_active, response,
                   user_response, file, history>>

\* the transcript written without line 117, so that the loop goes on
SaveTranscriptKeepsLooping ==
    /\ pc = "save"
    /\ n_writes < 2
    /\ file' = [exists |-> TRUE, data |-> WriteAll(messages)]
    /\ n_writes' = n_writes + 1
    /\ pc' = "request"
    /\ UNCHANGED <<env, initial_review, image_files, first_message_content,
                   image_content, messages, conversation_active, response,
                   user_response, requests, n_inputs, n_replies, n_reads>>

\* lines 107-117: write the transcript, clear conversation_active, leave the loop
SaveTranscript ==
    /\ pc = "save"
    /\ file' = [exists |-> TRUE, data |-> WriteAll(messages)]
    /\ n_writes' = n_writes + 1
    /\ conversation_active' = FALSE
    /\ pc' = "done"
    /\ UNCHANGED <<env, initial_review, image_files, first_message_content,
                   image_content, messages, response, user_response, requests,
                   n_inputs, n_replies, n_reads>>

\* line 107: open(..., "w") raises (no permission, read-only directory)
SaveFails ==
    /\ pc = "save"
    /\ pc' = "crash_write"
    /\ UNCHANGED <<env, initial_review, image_files, first_message_content,
                   image_content, messages, conversation_active, response,
                   user_response, file, history>>

Next ==
    \/ ReadInitialReview
    \/ EncodeImage
    \/ EncodeImageFails
    \/ BuildFirstMessage
    \/ SendRequest
    \/ RequestRaises
    \/ ReadUserInput
    \/ InputEOF
    \/ SaveTranscript
    \/ SaveFails

Spec == Init /\ [][Next]_vars

\* the start states with at most the one image file a.png in the directory
InitOneImage ==
    /\ Init
    /\ \A i \in 1..Len(listing) : listing[i] = <<"a",".","p","n","g">>

\* the program takes its next step whenever one is possible: it is sequential
\* and every call it makes returns or raises
FairSpec == InitOneImage /\ [][Next]_vars /\ WF_vars(Next)

TypeOK ==
    /\ pc \in {"start", "encode", "request", "input", "save", "done", "crash_listdir",
               "crash_encode", "crash_request", "crash_eof", "crash_write"}
    /\ n_inputs \in 0..MaxTurns
    /\ conversation_active \in BOOLEAN

(* ======================================================================= *)
(* Properties                                                              *)
(* ======================================================================= *)

\* the loop of lines 82-123 has been entered
InLoop == pc = "request" \/ requests # <<>>

\* a position the run never leaves
Ended ==
    pc \in {"done", "crash_listdir", "crash_encode", "crash_request", "crash_eof",
            "crash_write"}

\* every spelling of the word exit in upper and lower case letters
ExitVariants ==
    { s \in [1..4 -> {"e","E","x","X","i","I","t","T"}] :
        /\ s[1] \in {"e","E"}
        /\ s[2] \in {"x","X"}
        /\ s[3] \in {"i","I"}
        /\ s[4] \in {"t","T"} }

\* s is a proper prefix of t
StrictPrefix(s, t) == Len(s) < Len(t) /\ SubSeq(t, 1, Len(s)) = s

\* the image parts of a content list
ImageParts(parts) == SelectSeq(parts, LAMBDA p : p.type = "image")

(* ----------------------------------------------------------------------- *)
\* C1: after N non-sentinel turn inputs and N successful model replies the
\* messages list has length exactly 1 + 2N, for every N >= 0.
C1_LengthAfterNTurns ==
    (InLoop /\ n_inputs = n_replies) => Len(messages) = 1 + 2 * n_inputs

C1_Witness ==
    /\ pc = "request"
    /\ n_inputs = 2
    /\ n_replies = 2
    /\ Len(messages) = 5

(* ----------------------------------------------------------------------- *)
\* C2: a turn input of EXIT, Exit or exit, in any spelling of upper and lower
\* case, moves the loop to Terminating without appending the line, and the
\* conversation stays what it was before the sentinel was read until the run
\* ends.
C2_SentinelTerminates ==
    [][ /\ (pc = "input" /\ n_reads' = n_reads + 1 /\ user_response' \in ExitVariants)
            => (pc' = "save" /\ messages' = messages)
        /\ pc = "save" => messages' = messages ]_vars

C2_Witness ==
    /\ pc = "done"
    /\ user_response = <<"E","X","I","T">>
    /\ Len(messages) = 4
    /\ messages[Len(messages)].role = assistant

(* ----------------------------------------------------------------------- *)
\* Reading the transcript back: a block starts where an upper-cased role
\* label stands at the start of the file or right after a blank line.
RoleLabels == { Upper(user) \o <<":">>, Upper(assistant) \o <<":">> }

StartsWithAt(f, i, label) ==
    /\ i + Len(label) - 1 <= Len(f)
    /\ SubSeq(f, i, i + Len(label) - 1) = label

BlockStarts(f) ==
    { i \in 1..Len(f) :
        /\ i = 1 \/ (i > 2 /\ f[i-1] = "\n" /\ f[i-2] = "\n")
        /\ \E label \in RoleLabels : StartsWithAt(f, i, label) }

\* the k-th block of the file, from its label up to the next block
Block(f, k) ==
    LET starts == BlockStarts(f)
        nth(n) == CHOOSE i \in starts : Cardinality({ j \in starts : j < i }) = n - 1
    IN  SubSeq(f, nth(k), IF k < Cardinality(starts) THEN nth(k + 1) - 1 ELSE Len(f))

\* the text of a message, image parts left out
MessageText(m) ==
    IF m.is_str THEN m.text
    ELSE Join([i \in 1..Len(SelectSeq(m.parts, LAMBDA p : p.type = "text")) |->
                  SelectSeq(m.parts, LAMBDA p : p.type = "text")[i].text])

\* C3: on normal termination the transcript, split into blocks by role-label
\* prefix, has exactly one block per message of the conversation, in order,
\* each block being the upper-cased role, a colon and a space, the message's
\* text and a blank line, whatever the message content is.
C3_TranscriptBlocks ==
    pc = "done" =>
        /\ Cardinality(BlockStarts(file.data)) = Len(messages)
        /\ \A k \in 1..Len(messages) :
              Block(file.data, k) =
                  Upper(messages[k].role) \o <<":"," ">> \o MessageText(messages[k])
                      \o <<"\n","\n">>

(* ----------------------------------------------------------------------- *)
\* C4: when a remote request fails (it raises, or the reply has no first text
\* element) the run ends there: no further request, no step at all, and the
\* transcript file is never written; the file is written only after a
\* sentinel was read, with every request answered.
C4_RequestFailureIsFatal ==
    /\ [](pc = "crash_request" =>
            /\ n_writes = 0
            /\ ~file.exists
            /\ Len(requests) = n_replies + 1)
    /\ [](n_writes > 0 =>
            /\ pc = "done"
            /\ user_response \in ExitVariants
            /\ Len(requests) = n_replies)
    /\ [][pc # "crash_request"]_vars

C4_Witness ==
    /\ pc = "crash_request"
    /\ Len(requests) = 2
    /\ n_replies = 1
    /\ response = <<>>

(* ----------------------------------------------------------------------- *)
\* C5: when a discovered image file cannot be opened or read the run aborts
\* before any remote request: a failed encode_image and a request never occur
\* in the same run, and every request carries one image part per discovered
\* file.
C5_UnreadableImageAborts ==
    /\ [](pc = "crash_encode" => requests = <<>> /\ messages = <<>>)
    /\ [][pc # "crash_encode"]_vars
    /\ [](\A k \in 1..Len(requests) :
            Len(ImageParts(requests[k].messages[1].parts)) = Len(image_files))

C5_Witness ==
    /\ pc = "crash_encode"
    /\ Len(image_files) = 2
    /\ Len(image_content) = 1

(* ----------------------------------------------------------------------- *)
\* the extension of a name as found: what follows its last dot
ExtensionAsFound(name) == SubSeq(name, RFind(name, ".") + 1, Len(name))

\* the name ends, ignoring case, in one of the five extensions
Recognized(name) ==
    /\ RFind(name, ".") > 0
    /\ Lower(ExtensionAsFound(name)) \in
          { <<"j","p","g">>, <<"j","p","e","g">>, <<"p","n","g">>, <<"g","i","f">>,
            <<"w","e","b","p">> }

\* C6: the first message has one image part per listed name with a recognized
\* extension, and the media_type of each is image/ followed by the extension
\* of that name as found, also for a name that is only an extension (.png).
C6_ImagePartsAndMediaTypes ==
    messages # <<>> =>
        LET parts == ImageParts(messages[1].parts)
            names == SelectSeq(listing, Recognized)
        IN  /\ Len(parts) = Len(names)
            /\ \A i \in 1..Len(parts) :
                  parts[i].media_type =
                      <<"i","m","a","g","e","/">> \o ExtensionAsFound(names[i])

(* ----------------------------------------------------------------------- *)
\* the images directory is absent, or lists no name with a recognized extension
NoImages ==
    \/ images_kind = "absent"
    \/ images_kind = "dir" /\ \A i \in 1..Len(listing) : ~Recognized(listing[i])

\* C7: with the images directory absent or without a recognized file the run
\* does not fail while assembling, and the content of the first message, as
\* built and as sent, is the single text part
\* "Here is my initial product review:\n\n" + review + "\n\n".
C7_NoImagesFirstMessage ==
    NoImages =>
        /\ pc \notin {"crash_listdir", "crash_encode"}
        /\ messages # <<>> =>
              messages[1].parts =
                  << TextPart(ReviewHeader \o initial_review \o <<"\n","\n">>) >>
        /\ \A k \in 1..Len(requests) :
              requests[k].messages[1].parts =
                  << TextPart(ReviewHeader \o initial_review \o <<"\n","\n">>) >>

C7_Witness ==
    /\ images_kind = "absent"
    /\ initial_review = <<"G","r","e","a","t">>
    /\ Len(requests) = 1
    /\ pc = "input"

C9_AppendOnly ==
    /\ [][ \/ messages' = messages
           \/ /\ Len(messages') = Len(messages) + 1
              /\ SubSeq(messages', 1, Len(messages)) = messages ]_vars
    /\ [](\A k \in 1..(Len(requests) - 1) :
            StrictPrefix(requests[k].messages, requests[k + 1].messages))

C9_Witness ==
    /\ Len(requests) = 3
    /\ pc = "input"
    /\ Len(messages) = 6

(* ----------------------------------------------------------------------- *)
\* C10: the k-th request carries the whole conversation so far, 2k-1
\* messages, with the one system directive; a reply with a first text element
\* appends exactly one assistant message whose content is that element's
\* text, and the step after it reads operator input, never a second request.
C10_RequestAndReply ==
    /\ [](\A k \in 1..Len(requests) :
            /\ Len(requests[k].messages) = 2 * k - 1
            /\ requests[k].system = system_prompt)
    /\ [][ /\ Len(requests') = Len(requests) + 1
               => requests'[Len(requests')].messages = messages
           /\ (Len(requests') = Len(requests) + 1 /\ pc' # "crash_request")
               => /\ messages' =
                         Append(messages,
                                [role |-> assistant, is_str |-> TRUE,
                                 text |-> response'[1].text, parts |-> <<>>])
                  /\ pc' = "input"
           /\ pc = "input" => requests' = requests ]_vars

C10_Witness ==
    /\ pc = "input"
    /\ Len(requests) = 2
    /\ response = << TextBlock(<<"Q","?">>), TextBlock(<<"z">>) >>
    /\ messages[4].text = <<"Q","?">>

(* ----------------------------------------------------------------------- *)
\* C11: a turn input that is not exit in some spelling of upper and lower
\* case, the empty line and " exit" included, appends exactly one user
\* message whose content is the line as read, and the step after it issues a
\* remote request carrying that message.
C11_OtherLinesAreAppended ==
    [][ /\ (pc = "input" /\ n_reads' = n_reads + 1 /\ user_response' \notin ExitVariants)
            => /\ messages' =
                      Append(messages,
                             [role |-> user, is_str |-> TRUE,
                              text |-> user_response', parts |-> <<>>])
               /\ pc' = "request"
        /\ (pc = "request" /\ n_reads > 0)
            => /\ Len(requests') = Len(requests) + 1
               /\ requests'[Len(requests')].messages = messages
               /\ messages[Len(messages)].text = user_response ]_vars

C11_Witness ==
    /\ pc = "input"
    /\ Len(requests) = 3
    /\ requests[2].messages[3].text = <<>>
    /\ requests[3].messages[5].text = <<" ","e","x","i","t">>

(* ----------------------------------------------------------------------- *)
\* C12: the loop starts in AwaitingModelReply with a conversation of exactly
\* one user message; the first request carries it and is issued before any
\* turn input is read, so no turn input is read, no session is ended and no
\* transcript is written before one request has been answered.
C12_RequestBeforeInput ==
    /\ [][ (pc = "encode" /\ pc' # "encode" /\ pc' # "crash_encode")
              => /\ pc' = "request"
                 /\ Len(messages') = 1
                 /\ messages'[1].role = user
                 /\ requests' = <<>>
                 /\ n_reads' = 0 ]_vars
    /\ [](requests # <<>> =>
            /\ Len(requests[1].messages) = 1
            /\ requests[1].messages[1].role = user)
    /\ []((n_reads > 0 \/ pc \in {"input", "save", "done", "crash_write"} \/ file.exists)
            => n_replies >= 1)

C12_Witness ==
    /\ pc = "request"
    /\ requests = <<>>
    /\ Len(messages) = 1
    /\ n_reads = 0
    /\ Len(messages[1].parts) = 2

(* ----------------------------------------------------------------------- *)
\* C13: Terminating is terminal: the transcript file is written at most once
\* in a run, and once it is written no request is issued, no operator input
\* is read, no message is appended and the file is not written again.
C13_TerminatingIsTerminal ==
    /\ [](n_writes <= 1)
    /\ [][ n_writes > 0
             => /\ requests' = requests
                /\ n_reads' = n_reads
                /\ messages' = messages
                /\ file' = file
                /\ n_writes' = n_writes ]_vars
    /\ [](n_writes > 0 => (pc = "done" /\ ~conversation_active))

C13_Witness ==
    /\ pc = "done"
    /\ n_writes = 1
    /\ n_inputs = 2
    /\ Len(requests) = 3

(* ----------------------------------------------------------------------- *)
\* C14: the first message has role user; its content is one text part, then
\* one image part per discovered file in the order of the directory listing;
\* the text part is the header, the review and a blank line, followed by the
\* "I'm also sharing some images" sentence exactly when a file was discovered.
C14_FirstMessageLayout ==
    messages # <<>> =>
        LET m == messages[1]
            names == SelectSeq(listing, Recognized)
            opening == ReviewHeader \o initial_review \o <<"\n","\n">>
        IN  /\ m.role = user
            /\ ~m.is_str
            /\ Len(m.parts) = 1 + Len(names)
            /\ m.parts[1].type = "text"
            /\ \A i \in 1..Len(names) :
                  /\ m.parts[i + 1].type = "image"
                  /\ m.parts[i + 1].data =
                         <<"base64">> \o <<"i","m","a","g","e","s","/">> \o names[i]
            /\ SubSeq(m.parts[1].text, 1, Len(opening)) = opening
            /\ EndsWith(m.parts[1].text, ImagesSentence) <=> names # <<>>
            /\ Len(m.parts[1].text) =
                   Len(opening) + (IF names # <<>> THEN Len(ImagesSentence) ELSE 0)

C14_Witness ==
    /\ pc = "request"
    /\ listing = << <<"b",".","J","P","G">>, <<"a",".","p","n","g">> >>
    /\ Len(messages[1].parts) = 3
    /\ EndsWith(messages[1].parts[1].text, ImagesSentence)

(* ----------------------------------------------------------------------- *)
\* C15: roles alternate in every conversation: the message at 0-based
\* position i is a user message when i is even and an assistant message when
\* i is odd; every history sent to the remote model has odd length and ends
\* with a user message.
C15_RolesAlternate ==
    /\ \A i \in 1..Len(messages) :
          messages[i].role = IF i % 2 = 1 THEN user ELSE assistant
    /\ \A k \in 1..Len(requests) :
          LET h == requests[k].messages
          IN  /\ Len(h) % 2 = 1
              /\ h[Len(h)].role = user
              /\ \A i \in 1..Len(h) : h[i].role = IF i % 2 = 1 THEN user ELSE assistant

C15_Witness ==
    /\ pc = "crash_request"
    /\ Len(requests) = 3
    /\ Len(messages) = 5
    /\ messages[5].role = user

(* ----------------------------------------------------------------------- *)
\* C16: when the transcript is written the conversation has even length
\* 2N+2, N the number of non-sentinel turn inputs, at least 2, and its last
\* message is an assistant message; the last block of the transcript, read
\* back by role label, is never a USER block.
C16_TranscriptEndsWithAssistant ==
    (pc = "done" /\ file.exists) =>
        /\ Len(messages) = 2 * n_inputs + 2
        /\ Len(messages) >= 2
        /\ messages[Len(messages)].role = assistant
        /\ StartsWithAt(Block(file.data, Cardinality(BlockStarts(file.data))), 1,
                        Upper(assistant) \o <<":">>)

(* ----------------------------------------------------------------------- *)
\* C17: the sentinel is recognized only on turn inputs: an initial review
\* that spells exit in any case does not end the run, it is embedded in the
\* text part of the first message, the loop is entered and a request carrying
\* it is sent; the save is reached only through a turn input.
C17_SentinelOnlyInLoop ==
    /\ [][ (pc = "start" /\ initial_review' \in ExitVariants)
              => pc' \in {"encode", "crash_listdir"} ]_vars
    /\ []((initial_review \in ExitVariants /\ messages # <<>>) =>
            SubSeq(messages[1].parts[1].text, 1, Len(ReviewHeader) + 6) =
                ReviewHeader \o initial_review \o <<"\n","\n">>)
    /\ [][ (initial_review \in ExitVariants /\ pc = "encode" /\ pc' # "encode"
              /\ pc' # "crash_encode") => pc' = "request" ]_vars
    /\ [][ (initial_review \in ExitVariants /\ pc = "request")
              => /\ Len(requests') = Len(requests) + 1
                 /\ requests'[Len(requests')].messages[1] = messages[1] ]_vars
    /\ []((pc \in {"save", "done", "crash_write"} \/ n_writes > 0) =>
            (n_reads >= 1 /\ user_response \in ExitVariants))

C17_Witness ==
    /\ initial_review = <<"E","X","I","T">>
    /\ pc = "input"
    /\ Len(requests) = 1
    /\ n_reads = 0

====
